---- MODULE Spec2Model ----
\* A model of the webfocus plugin host: WebfocusApp (src/app.js) and
\* WebfocusComponent (src/component.js).
\*
\* Strings of the program (names, URL names, request paths) are sequences of
\* one-character strings, so that the URL-name derivation, the express mount
\* matching and the view sub-path computation are computed, not assumed.
EXTENDS Integers, Sequences, FiniteSets, TLC

VARIABLES
    started,        \* WebfocusApp.started
    components,     \* WebfocusApp.components: own properties, in insertion order
    configuration,  \* WebfocusApp.configuration (the components list)
    apiStack,       \* layers of the express router this.api, in order
    appStack,       \* layers of the express application this.app, in order
    events,         \* per component instance: the events its emit() received
    listeners,      \* number of app.listen() calls made
    call,           \* the operation performed last and its argument
    ret,            \* what that operation returned
    response,       \* the answer, when the last operation was a request
    cfgStore,       \* WebfocusComponent.#_configuration, per instance
    readyCb,        \* WebfocusComponent.#_onConfigurationReady, per instance
    cbCalls,        \* per instance and callback: how often it was invoked
    thrown,         \* exception the last component operation threw
    got             \* value the last configuration property read returned

appVars  == <<started, components, configuration, apiStack, appStack, events,
              listeners, ret, response>>
compVars == <<cfgStore, readyCb, cbCalls, thrown, got>>
vars     == <<started, components, configuration, apiStack, appStack, events,
              listeners, call, ret, response, cfgStore, readyCb, cbCalls,
              thrown, got>>

-----------------------------------------------------------------------------
\* Bounds of the model.

\* Longest event log a component may collect (caps direct emit() calls).
MaxLog == 3

-----------------------------------------------------------------------------
\* Characters and strings.

Last(s) == s[Len(s)]

lowerOf(ch) == CASE ch = "A" -> "a" [] ch = "B" -> "b" [] OTHER -> ch

\* String.prototype.toLowerCase
RECURSIVE toLowerCase(_)
toLowerCase(s) ==
    IF s = <<>> THEN <<>> ELSE <<lowerOf(Head(s))>> \o toLowerCase(Tail(s))

\* The characters the regular expression class \s matches.
Whitespace == {" ", "\t"}

\* name.replace(/\s+/g, '-'): every maximal run of whitespace becomes one '-'.
RECURSIVE replaceWhitespace(_)
replaceWhitespace(s) ==
    IF s = <<>> THEN <<>>
    ELSE IF Head(s) \in Whitespace
         THEN IF Len(s) > 1 /\ s[2] \in Whitespace
              THEN replaceWhitespace(Tail(s))
              ELSE <<"-">> \o replaceWhitespace(Tail(s))
         ELSE <<Head(s)>> \o replaceWhitespace(Tail(s))

UrlName(name) == toLowerCase(replaceWhitespace(name))

\* new WebfocusComponent(name, ...). src/app.js also reads component.hidden and
\* calls component.emit and component.staticApp, which src/component.js does
\* not define: hidden is a field of the record, emit appends to the event log
\* of the instance (`events`), and staticApp is a middleware that answers the
\* request or calls next.
WebfocusComponent(name, hidden) ==
    [name |-> name, urlname |-> UrlName(name), hidden |-> hidden]

NoComponent == [name |-> <<>>, urlname |-> <<>>, hidden |-> FALSE]

RESERVED_URLNAMES ==
    << <<"b","o","o","t","s","t","r","a","p">>,
       <<"w","e","b","f","o","c","u","s","-","s","t","a","t","i","c">>,
       <<"p","o","p","p","e","r","j","s">> >>

\* Array.prototype.indexOf(x) >= 0
Includes(arr, x) == \E i \in 1..Len(arr) : arr[i] = x

\* The component instances offered for registration.
Pool ==
    { WebfocusComponent(<<"A"," ","b">>, FALSE),
      WebfocusComponent(<<"a"," ","\t","B">>, TRUE),
      WebfocusComponent(<<"B","o","o","t","s","t","r","a","p">>, FALSE),
      WebfocusComponent(<<"a","p","i">>, FALSE),
      WebfocusComponent(<<"2">>, FALSE),
      WebfocusComponent(<<"c","o","n","s","t","r","u","c","t","o","r">>, FALSE) }

-----------------------------------------------------------------------------
\* JavaScript objects used as maps: a sequence of [key, value] in insertion
\* order of the own properties.

OwnKeysInOrder(obj) == [i \in 1..Len(obj) |-> obj[i].key]
HasOwn(obj, k) == \E i \in 1..Len(obj) : obj[i].key = k

\* Property names every object inherits from Object.prototype.
ObjectPrototypeKeys ==
    { <<"c","o","n","s","t","r","u","c","t","o","r">> }


\* The `in` operator: own and inherited property names.
KeyIn(obj, k) == HasOwn(obj, k) \/ k \in ObjectPrototypeKeys

\* obj[k] (undefined is NoComponent)
Lookup(obj, k) ==
    IF HasOwn(obj, k)
    THEN obj[CHOOSE i \in 1..Len(obj) : obj[i].key = k].value
    ELSE NoComponent

\* obj[k] = v: overwrite in place, or add as the newest own property.
ObjSet(obj, k, v) ==
    IF HasOwn(obj, k)
    THEN [i \in 1..Len(obj) |-> IF obj[i].key = k THEN [key |-> k, value |-> v]
                                                 ELSE obj[i]]
    ELSE Append(obj, [key |-> k, value |-> v])

Digits == <<"0", "1", "2", "3", "4", "5", "6", "7", "8", "9">>
IsDigit(ch) == Includes(Digits, ch)
DigitValue(ch) == (CHOOSE i \in 1..Len(Digits) : Digits[i] = ch) - 1

\* A property name that is a canonical array index ("0", "2", "17", ...).
IsArrayIndex(k) ==
    /\ k # <<>>
    /\ \A i \in 1..Len(k) : IsDigit(k[i])
    /\ (Len(k) = 1 \/ k[1] # "0")

RECURSIVE IndexValue(_)
IndexValue(k) ==
    IF k = <<>> THEN 0
    ELSE IndexValue(SubSeq(k, 1, Len(k) - 1)) * 10 + DigitValue(Last(k))

RECURSIVE Ascending(_)
Ascending(keys) ==
    IF keys = {} THEN <<>>
    ELSE LET m == CHOOSE k \in keys :
                      \A o \in keys : IndexValue(k) <= IndexValue(o)
         IN  <<m>> \o Ascending(keys \ {m})

\* Object.keys(obj): array-index names in ascending numeric order, then the
\* other names in insertion order.
ObjectKeys(obj) ==
    LET ks == OwnKeysInOrder(obj)
    IN  Ascending({ks[i] : i \in {j \in 1..Len(ks) : IsArrayIndex(ks[j])}})
        \o SelectSeq(ks, LAMBDA k : ~IsArrayIndex(k))

\* Object.values(obj), as the set of values (the order is that of ObjectKeys).
ObjectValues(obj) == {obj[i].value : i \in 1..Len(obj)}

-----------------------------------------------------------------------------
\* WebfocusApp: construction, registration, start, emit.

Layer(kind, mount, key) == [kind |-> kind, mount |-> mount, key |-> key]

Slash(urlname) == <<"/">> \o urlname

\* A value of the configuration slot of a component: the EMPTY sentinel,
\* undefined, or an object with a port.
EMPTY == [tag |-> "EMPTY", port |-> 0]
Undefined == [tag |-> "undefined", port |-> 0]

\* The record of an operation: its name and the arguments it was given.
Call(op, component, event) ==
    [op |-> op, component |-> component, event |-> event,
     value |-> Undefined, prop |-> "", cb |-> ""]

NoCall == Call("new", NoComponent, "")

NoResponse ==
    [method |-> "", path |-> <<>>, status |-> 0, by |-> "", key |-> <<>>,
     rendered |-> "", first |-> "", subpath |-> <<>>, fallback |-> "",
     err |-> "", trace |-> <<>>]

\* Values the caller may pass as configuration.components.
ConstructorInputs == { <<>>, << <<"x">> >> }

\* new WebfocusApp(configuration): the components list of the record.
ConstructorComponents(given) == <<>>

\* getAllComponentNames()
getAllComponentNames == ObjectKeys(components)

\* The three rejections of registerComponent, in the order the code tests them.
IgnoredAfterStart_never == FALSE

IgnoredAfterStart == started

IsRegistered_never(urlname) == FALSE

IsRegistered(urlname) == KeyIn(components, urlname)

IsReserved_never(urlname) == FALSE

IsReserved(urlname) == Includes(RESERVED_URLNAMES, urlname)

\* configuration.components after registering `component`.
PushName_always(list, component) == Append(list, component.urlname)

PushName(list, component) ==
    IF ~component.hidden THEN Append(list, component.urlname) ELSE list

registerComponent(component) ==
    /\ call' = Call("registerComponent", component, "")
    /\ response' = NoResponse
    /\ UNCHANGED <<started, listeners>>
    /\ IF IgnoredAfterStart \/ IsRegistered(component.urlname)
          \/ IsReserved(component.urlname)
       THEN /\ ret' = "false"
            /\ UNCHANGED <<components, configuration, events, apiStack, appStack>>
       ELSE /\ components' = ObjSet(components, component.urlname, component)
            /\ configuration' =
                   [configuration EXCEPT
                        !.components = PushName(@, component)]
            /\ events' = [events EXCEPT ![component] = Append(@, "webfocusApp")]
            /\ apiStack' = Append(apiStack,
                   Layer("compApi", Slash(component.urlname), component.urlname))
            /\ appStack' = Append(appStack,
                   Layer("compPage", Slash(component.urlname), component.urlname))
            /\ ret' = "true"

\* emit(name, ...obj): broadcast to every component currently known.
Broadcast(log, name) ==
    [c \in DOMAIN log |->
        IF c \in ObjectValues(components) THEN Append(log[c], name) ELSE log[c]]

\* The handlers start() appends to this.api and to this.app.
LastApiHandlers ==
    << Layer("apiNotFound", <<>>, <<>>), Layer("apiError", <<>>, <<>>) >>

LastAppHandlers_noNotFound ==
    << Layer("static", <<"/","w","e","b","f","o","c","u","s","-","s","t","a","t","i","c">>, <<>>),
       Layer("static", <<"/","b","o","o","t","s","t","r","a","p">>, <<>>),
       Layer("static", <<"/","p","o","p","p","e","r","j","s">>, <<>>),
       Layer("static", <<>>, <<>>),
       Layer("methodNotAllowed", <<>>, <<>>),
       Layer("errorHandler", <<>>, <<>>) >>

LastAppHandlers ==
    << Layer("static", <<"/","w","e","b","f","o","c","u","s","-","s","t","a","t","i","c">>, <<>>),
       Layer("static", <<"/","b","o","o","t","s","t","r","a","p">>, <<>>),
       Layer("static", <<"/","p","o","p","p","e","r","j","s">>, <<>>),
       Layer("static", <<>>, <<>>),
       Layer("notFoundGet", <<>>, <<>>),
       Layer("methodNotAllowed", <<>>, <<>>),
       Layer("errorHandler", <<>>, <<>>) >>

\* Status the "Method not allowed" handler sets.
MethodNotAllowedStatus == 400

MultipleStart_never == FALSE

\* The test that makes start() ignore every call but the first.
MultipleStart == started

start ==
    /\ call' = Call("start", NoComponent, "")
    /\ response' = NoResponse
    /\ UNCHANGED <<components, configuration>>
    /\ IF MultipleStart
       THEN /\ ret' = "null"
            /\ UNCHANGED <<started, events, apiStack, appStack, listeners>>
       ELSE /\ started' = TRUE
            /\ events' = Broadcast(events, "configuration")
            /\ apiStack' = apiStack \o LastApiHandlers
            /\ appStack' = appStack \o LastAppHandlers
            /\ listeners' = listeners + 1
            /\ ret' = "server"

EventNames == {"configuration", "custom"}

emit(name) ==
    /\ \A c \in ObjectValues(components) : Len(events[c]) < MaxLog
    /\ call' = Call("emit", NoComponent, name)
    /\ events' = Broadcast(events, name)
    /\ ret' = "undefined"
    /\ response' = NoResponse
    /\ UNCHANGED <<started, components, configuration, apiStack, appStack,
                   listeners>>


-----------------------------------------------------------------------------
\* Request dispatch: express walks a stack of layers in order; a layer whose
\* mount path or route does not match, or whose arity does not fit the mode
\* (error / no error), is skipped.

Methods == {"GET", "HEAD", "POST"}

IsGetOrHead(method) == method \in {"GET", "HEAD"}

\* What the opaque collaborators may do with a request is not decided by this
\* code, so every outcome is followed: the body parsers (parse or fail), the
\* component's API router (answer, call next, fail), the component's static
\* middleware (answer or call next), express.static (a file exists or not) and
\* the template engine (render, fail to look the view up, fail otherwise).
RenderOutcomes == {"ok", "Failed to lookup view", "other error"}

\* app.use(mount, ...): the mount path matches a prefix of the request path
\* that ends at a '/' or at the end of the path, letter case ignored.
MountMatches(mount, path) ==
    LET m == toLowerCase(mount)
        p == toLowerCase(path)
    IN  /\ Len(p) >= Len(m)
        /\ SubSeq(p, 1, Len(m)) = m
        /\ (Len(p) = Len(m) \/ p[Len(m) + 1] = "/" \/ m = <<>>)

\* req.path as a mounted handler sees it.
StripMount(mount, path) ==
    IF Len(path) = Len(mount) THEN <<"/">>
    ELSE SubSeq(path, Len(mount) + 1, Len(path))

\* The view sub-path the Component SSR Handler derives from req.path.
Subpath(reqPath) ==
    LET s1 == IF Last(reqPath) = "/"
              THEN reqPath \o <<"i", "n", "d", "e", "x">>
              ELSE reqPath
    IN  IF \E i \in 1..Len(s1) : s1[i] = "."
        THEN LET d == CHOOSE i \in 1..Len(s1) :
                          /\ s1[i] = "."
                          /\ \A j \in (i + 1)..Len(s1) : s1[j] # "."
             IN  SubSeq(s1, 1, d - 1)
        ELSE s1

IndexSubpath == <<"/", "i", "n", "d", "e", "x">>

FailedToLookup_never(message) == FALSE

\* err.message.indexOf("Failed to lookup") >= 0
FailedToLookup(message) == message = "Failed to lookup view"

\* Bookkeeping of one request while it walks the stacks.
Begin(method, path) == [NoResponse EXCEPT !.method = method, !.path = path]

Visit(st, kind, key) ==
    [st EXCEPT !.trace = Append(@, [kind |-> kind, key |-> key])]

Answer(st, status, by, key, rendered) ==
    [st EXCEPT !.status = status, !.by = by, !.key = key, !.rendered = rendered]

Raise(st, err) == [st EXCEPT !.err = err]

\* The Component SSR Handler, for a GET or HEAD request, given the outcome of
\* the first render and of the render of the index view: the response if it
\* answers, and otherwise the bookkeeping with the error it passes to next().
ComponentSSR(st, key, reqPath, view, index) ==
    LET subpath == Subpath(reqPath)
        st1 == [st EXCEPT !.subpath = subpath, !.first = view]
    IN  IF view = "ok"
        THEN Answer(st1, 200, "ssr", key, "view")
        ELSE IF subpath = IndexSubpath
        THEN Raise(st1, "view")
        ELSE IF FailedToLookup(view)
        THEN LET st2 == [st1 EXCEPT !.fallback = index]
             IN  IF index = "ok"
                 THEN Answer(st2, 200, "ssr", key, "index")
                 ELSE Raise(st2, "index")
        ELSE Raise(st1, "view")

\* The router this.api, from layer i on; p is the path below /api. The set
\* of ways it can end: answered (status set) or left to the application.
RECURSIVE RunApi(_, _, _)
RunApi(i, p, st) ==
    IF i > Len(apiStack) THEN {st}
    ELSE LET l == apiStack[i]
             v == Visit(st, l.kind, l.key)
         IN
         IF st.err # ""
         THEN IF l.kind = "apiError"
              THEN {Answer(v, 500, "apiError", <<>>, "json")}
              ELSE RunApi(i + 1, p, st)
         ELSE IF l.kind = "apiRootGet" /\ IsGetOrHead(st.method) /\ p = <<"/">>
         THEN {Answer(v, 200, "apiRootGet", <<>>, "json")}
         ELSE IF l.kind = "compApi" /\ MountMatches(l.mount, p)
         THEN {Answer(v, 200, "compApi", l.key, "router")}
              \cup RunApi(i + 1, p, Raise(v, "api"))
              \cup RunApi(i + 1, p, v)
         ELSE IF l.kind = "apiNotFound"
         THEN {Answer(v, 404, "apiNotFound", <<>>, "json")}
         ELSE RunApi(i + 1, p, st)

\* The application this.app, from layer i on: the set of possible responses.
RECURSIVE RunApp(_, _)
RunApp(i, st) ==
    IF i > Len(appStack)
    THEN {Answer(st, IF st.err # "" THEN 500 ELSE 404, "finalhandler", <<>>, "")}
    ELSE LET l == appStack[i]
             v == Visit(st, l.kind, l.key)
         IN
         IF st.err # ""
         THEN IF l.kind = "errorHandler"
              THEN {Answer(v, 500, "errorHandler", <<>>, "layouts/error")}
              ELSE RunApp(i + 1, st)
         ELSE IF l.kind = "apiMount" /\ MountMatches(l.mount, st.path)
         THEN RunApp(i + 1, Raise(v, "body"))
              \cup UNION { IF r.status # 0 THEN {r} ELSE RunApp(i + 1, r) :
                           r \in RunApi(1, StripMount(l.mount, st.path), v) }
         ELSE IF l.kind = "rootGet" /\ IsGetOrHead(st.method) /\ st.path = <<"/">>
         THEN {Answer(v, 200, "rootGet", <<>>, "layouts/index")}
         ELSE IF l.kind = "compPage" /\ MountMatches(l.mount, st.path)
         THEN {Answer(v, 200, "staticApp", l.key, "file")}
              \cup IF ~IsGetOrHead(st.method)
                   THEN RunApp(i + 1, Visit(v, "ssr", l.key))
                   ELSE UNION {
                        LET r == ComponentSSR(Visit(v, "ssr", l.key), l.key,
                                     StripMount(l.mount, st.path), view, index)
                        IN  IF r.status # 0 THEN {r} ELSE RunApp(i + 1, r) :
                        view \in RenderOutcomes, index \in RenderOutcomes }
         ELSE IF /\ l.kind = "static" /\ MountMatches(l.mount, st.path)
                 /\ IsGetOrHead(st.method)
         THEN {Answer(v, 200, "static", <<>>, "file")} \cup RunApp(i + 1, v)
         ELSE IF l.kind = "notFoundGet" /\ IsGetOrHead(st.method)
         THEN {Answer(v, 404, "notFoundGet", <<>>, "layouts/error")}
         ELSE IF l.kind = "methodNotAllowed"
         THEN {Answer(v, MethodNotAllowedStatus, "methodNotAllowed", <<>>,
                      "layouts/error")}
         ELSE RunApp(i + 1, st)

\* The request paths tried.
Paths ==
    { <<"/">>,
      <<"/","a","-","b","/">>,
      <<"/","a","-","b","/","i","n","d","e","x",".","h">>,
      <<"/","a","-","b","/","p">>,
      <<"/","A","-","B","/","s","/">>,
      <<"/","a","-","b","c">>,
      <<"/","z">>,
      <<"/","2","/","p",".","x",".","y">>,
      <<"/","a","p","i">>,
      <<"/","a","p","i","/","a","-","b","/","x">>,
      <<"/","a","p","i","/","z">>,
      <<"/","a","p","i","/","a","p","i">>,
      <<"/","b","o","o","t","s","t","r","a","p","/","f">> }

\* One HTTP request served by the listening server.
request(method, path) ==
    /\ listeners > 0
    /\ call' = Call("request", NoComponent, "")
    /\ response' \in RunApp(1, Begin(method, path))
    /\ ret' = "undefined"
    /\ UNCHANGED <<started, components, configuration, apiStack, appStack,
                   events, listeners>>

-----------------------------------------------------------------------------
\* WebfocusComponent: the configuration slot, written once and read through
\* a proxy.

\* The component instances whose configuration is exercised.
Instances == { c \in Pool : c.urlname \in {<<"a","-","b">>, <<"2">>} /\ ~c.hidden }

\* Values assigned to component.configuration.
CfgValues ==
    { [tag |-> "object", port |-> 0], [tag |-> "object", port |-> 8080],
      Undefined }

Callbacks == {"default", "cb1", "cb2"}
Props == {"port", "name"}

NotGot == [defined |-> FALSE, value |-> 0]

IsUnset_always(stored) == TRUE

\* The test of the setter: nothing has been assigned yet.
IsUnset(stored) == stored = EMPTY

\* component.onConfigurationReady(cb)
onConfigurationReady(c, cb) ==
    /\ call' = [Call("onConfigurationReady", c, "") EXCEPT !.cb = cb]
    /\ readyCb' = [readyCb EXCEPT ![c] = cb]
    /\ thrown' = ""
    /\ got' = NotGot
    /\ UNCHANGED <<cfgStore, cbCalls>>

\* component.configuration = value
setConfiguration(c, value) ==
    /\ call' = [Call("set configuration", c, "") EXCEPT !.value = value]
    /\ got' = NotGot
    /\ UNCHANGED readyCb
    /\ IF IsUnset(cfgStore[c])
       THEN /\ cfgStore' = [cfgStore EXCEPT ![c] = value]
            /\ cbCalls' = [cbCalls EXCEPT ![c][readyCb[c]] = @ + 1]
            /\ thrown' = ""
       ELSE /\ thrown' = "WebfocusComponentError"
            /\ UNCHANGED <<cfgStore, cbCalls>>

\* The test of the get trap: the configuration is not initialised yet.
NotInitialised(stored) == stored = EMPTY

\* component.configuration[prop]: the get trap of the proxy.
getProperty(c, prop) ==
    /\ call' = [Call("get property", c, "") EXCEPT !.prop = prop]
    /\ UNCHANGED <<cfgStore, readyCb, cbCalls>>
    /\ IF NotInitialised(cfgStore[c])
       THEN thrown' = "WebfocusComponentError" /\ got' = NotGot
       ELSE IF cfgStore[c].tag = "undefined"
       THEN thrown' = "TypeError" /\ got' = NotGot
       ELSE /\ thrown' = ""
            /\ got' = IF prop = "port"
                      THEN [defined |-> TRUE, value |-> cfgStore[c].port]
                      ELSE NotGot

\* component.configuration[prop] = value: the set trap of the proxy.
setProperty(c, prop, value) ==
    /\ call' = [Call("set property", c, "") EXCEPT !.prop = prop, !.value = value]
    /\ thrown' = "WebfocusComponentError"
    /\ got' = NotGot
    /\ UNCHANGED <<cfgStore, readyCb, cbCalls>>

-----------------------------------------------------------------------------
\* The specifications.

InitComponents ==
    /\ cfgStore = [c \in Instances |-> EMPTY]
    /\ readyCb = [c \in Instances |-> "default"]
    /\ cbCalls = [c \in Instances |-> [cb \in Callbacks |-> 0]]
    /\ thrown = ""
    /\ got = NotGot

InitApp ==
    /\ started = FALSE
    /\ components = <<>>
    /\ \E given \in ConstructorInputs :
           configuration = [components |-> ConstructorComponents(given)]
    /\ apiStack = << Layer("apiRootGet", <<>>, <<>>) >>
    /\ appStack = << Layer("apiMount", <<"/", "a", "p", "i">>, <<>>),
                     Layer("rootGet", <<>>, <<>>) >>
    /\ events = [c \in Pool |-> <<>>]
    /\ listeners = 0
    /\ call = NoCall
    /\ ret = "undefined"
    /\ response = NoResponse

Init == InitApp /\ InitComponents

\* Registration, start and broadcast.
Next ==
    \/ \E c \in Pool : registerComponent(c) /\ UNCHANGED compVars
    \/ start /\ UNCHANGED compVars
    \/ \E n \in EventNames : emit(n) /\ UNCHANGED compVars

Spec == Init /\ [][Next]_vars

\* Registration, start and the requests the started server answers. A request
\* writes nothing but `response`, and emit() writes nothing a request reads.
NextDispatch ==
    \/ \E c \in Pool : registerComponent(c) /\ UNCHANGED compVars
    \/ start /\ UNCHANGED compVars
    \/ \E m \in Methods, p \in Paths : request(m, p) /\ UNCHANGED compVars

SpecDispatch == Init /\ [][NextDispatch]_vars

\* The operations on the configuration of a component.
NextComponent ==
    \/ \E c \in Instances, cb \in Callbacks :
           onConfigurationReady(c, cb) /\ UNCHANGED appVars
    \/ \E c \in Instances, v \in CfgValues :
           setConfiguration(c, v) /\ UNCHANGED appVars
    \/ \E c \in Instances, p \in Props :
           getProperty(c, p) /\ UNCHANGED appVars
    \/ \E c \in Instances, p \in Props, v \in CfgValues :
           setProperty(c, p, v) /\ UNCHANGED appVars

SpecComponent == Init /\ [][NextComponent]_vars


-----------------------------------------------------------------------------
\* Vocabulary of the properties.

RegisteredKeys == {components[i].key : i \in 1..Len(components)}

NoRepeat(seq) == \A i, j \in 1..Len(seq) : seq[i] = seq[j] => i = j

Count(log, name) == Cardinality({i \in 1..Len(log) : log[i] = name})

Routes == <<apiStack, appStack>>

IsRequest == call.op = "request"

ApiMountPath == <<"/", "a", "p", "i">>
IsApiPath(path) == MountMatches(ApiMountPath, path)

\* The request path lies under the page prefix / the API prefix of key k.
UnderPage(k, path) == MountMatches(Slash(k), path)
UnderApi(k, path) ==
    IsApiPath(path) /\ MountMatches(Slash(k), StripMount(ApiMountPath, path))

\* Position of the first visit of a handler in the trace of the response
\* (0 when it was never invoked).
FirstVisit(kind, k) ==
    LET hits == {i \in 1..Len(response.trace) :
                    response.trace[i] = [kind |-> kind, key |-> k]}
    IN  IF hits = {} THEN 0
        ELSE CHOOSE i \in hits : \A j \in hits : i <= j

CatchAlls ==
    {"apiNotFound", "apiError", "notFoundGet", "methodNotAllowed", "errorHandler"}

Position(stack, kind, k) ==
    {i \in 1..Len(stack) : stack[i].kind = kind /\ stack[i].key = k}

CatchAllPositions(stack) == {i \in 1..Len(stack) : stack[i].kind \in CatchAlls}

-----------------------------------------------------------------------------
\* C1: a registerComponent call made once the application has started returns
\* false, and from the start on no step changes the component map,
\* configuration.components or the mounted routes.
C1_FixedFromStart ==
    [][ /\ started =>
            /\ components' = components
            /\ configuration' = configuration
            /\ Routes' = Routes
        /\ (started /\ call'.op = "registerComponent") => ret' = "false"
      ]_vars

\* A fresh, unreserved component was offered after the start and refused.
C1_Witness ==
    /\ started
    /\ call.op = "registerComponent"
    /\ ret = "false"
    /\ ~KeyIn(components, call.component.urlname)
    /\ ~Includes(RESERVED_URLNAMES, call.component.urlname)

\* C2: registering a component whose URL name is already registered returns
\* false and changes neither the map (the earlier component stays mapped), nor
\* configuration.components, nor the routes; no two registered components
\* share a URL name and configuration.components has no repeated entry.
C2_DuplicateRejected ==
    /\ [](NoRepeat(OwnKeysInOrder(components)) /\ NoRepeat(configuration.components))
    /\ [][ (call'.op = "registerComponent"
            /\ HasOwn(components, call'.component.urlname)) =>
              /\ ret' = "false"
              /\ components' = components
              /\ configuration' = configuration
              /\ Routes' = Routes
         ]_vars

\* Before the start, another instance with a registered URL name was refused
\* and the first instance is still the one mapped.
C2_Witness ==
    /\ ~started
    /\ call.op = "registerComponent"
    /\ ret = "false"
    /\ HasOwn(components, call.component.urlname)
    /\ Lookup(components, call.component.urlname) # call.component

\* C3: registering a component with a reserved URL name returns false and
\* changes no state; no reserved name is ever a key of the component map, an
\* entry of configuration.components, or the mount of a component route.
C3_ReservedRejected ==
    /\ [](\A i \in 1..Len(RESERVED_URLNAMES) :
            LET r == RESERVED_URLNAMES[i]
            IN  /\ r \notin RegisteredKeys
                /\ ~Includes(configuration.components, r)
                /\ Position(apiStack, "compApi", r) = {}
                /\ Position(appStack, "compPage", r) = {})
    /\ [][ (call'.op = "registerComponent"
            /\ Includes(RESERVED_URLNAMES, call'.component.urlname)) =>
              /\ ret' = "false"
              /\ <<started, components, configuration, Routes, events,
                   listeners>>' =
                 <<started, components, configuration, Routes, events,
                   listeners>>
         ]_vars

\* Before the start, a component named "Bootstrap" was refused.
C3_Witness ==
    /\ ~started
    /\ call.op = "registerComponent"
    /\ Includes(RESERVED_URLNAMES, call.component.urlname)
    /\ call.component.name # call.component.urlname
    /\ ret = "false"
    /\ components # <<>>


Range(seq) == {seq[i] : i \in 1..Len(seq)}

\* The URL names of the registered components that are not hidden, in
\* registration order.
VisibleNames ==
    LET vis == SelectSeq(components, LAMBDA e : ~e.value.hidden)
    IN  [i \in 1..Len(vis) |-> vis[i].key]

\* C8 as stated: configuration.components lists the URL names of all the
\* registered components in registration order, the names that
\* getAllComponentNames() returns.
C8_Original ==
    /\ configuration.components = OwnKeysInOrder(components)
    /\ Range(configuration.components) = Range(getAllComponentNames)

\* C8, amended: configuration.components lists, in registration order, the URL
\* names of the registered components that are not hidden, which are the
\* names getAllComponentNames() returns less those of the hidden components;
\* the list is empty after construction whatever the caller supplied.
C8_VisibleNames ==
    /\ configuration.components = VisibleNames
    /\ Range(configuration.components) =
           {k \in Range(getAllComponentNames) : ~Lookup(components, k).hidden}
    /\ call.op = "new" => configuration.components = <<>>

\* A hidden and a visible component are registered, and Object.keys lists the
\* names in another order than they were registered in.
C8_Witness ==
    /\ \E i \in 1..Len(components) : components[i].value.hidden
    /\ configuration.components # <<>>
    /\ getAllComponentNames # OwnKeysInOrder(components)

\* C9 as stated: over any sequence of operations a component receives the
\* "configuration" event at most once.
C9_Original == \A c \in Pool : Count(events[c], "configuration") <= 1

\* C9, amended: the first start() sets started, sends "configuration" once to
\* every registered component, appends the fallback handlers, opens the
\* listener and returns the server; every later start() returns null and
\* changes nothing; so start() delivers the event to a component at most once,
\* and any further "configuration" event comes from a direct emit() call.
C9_StartOnce ==
    /\ [](listeners <= 1 /\ (started <=> listeners = 1))
    /\ [][ /\ (call'.op = "start" /\ ~started) =>
                /\ started'
                /\ ret' = "server"
                /\ listeners' = listeners + 1
                /\ Len(apiStack') > Len(apiStack)
                /\ Len(appStack') > Len(appStack)
                /\ \A c \in Pool :
                     events'[c] = IF c \in ObjectValues(components)
                                  THEN Append(events[c], "configuration")
                                  ELSE events[c]
           /\ (call'.op = "start" /\ started) =>
                /\ ret' = "null"
                /\ <<started, components, configuration, Routes, events,
                     listeners>>' =
                   <<started, components, configuration, Routes, events,
                     listeners>>
           /\ \A c \in Pool :
                Count(events'[c], "configuration") >
                    Count(events[c], "configuration") =>
                  \/ call'.op = "start" /\ ~started
                  \/ call'.op = "emit" /\ call'.event = "configuration"
         ]_vars

\* A second start() was ignored while a component holds the one
\* "configuration" event of the first.
C9_Witness ==
    /\ started
    /\ call.op = "start"
    /\ ret = "null"
    /\ \E c \in ObjectValues(components) :
           events[c] = <<"webfocusApp", "configuration">>


\* How often the callbacks of instance c were invoked, all callbacks together.
Invocations(c) ==
    cbCalls[c]["default"] + cbCalls[c]["cb1"] + cbCalls[c]["cb2"]

\* C7: the first assignment to component.configuration stores the value and
\* invokes the registered onConfigurationReady callback once; a later one
\* throws WebfocusComponentError, stores nothing and invokes nothing; a read
\* through component.configuration before the first assignment throws
\* WebfocusComponentError; a write through it always throws and stores nothing.
C7_SingleAssignment ==
    /\ [](\A c \in Instances :
            Invocations(c) = IF cfgStore[c] = EMPTY THEN 0 ELSE 1)
    /\ [][ LET c == call'.component IN
           /\ (call'.op = "set configuration" /\ cfgStore[c] = EMPTY) =>
                /\ cfgStore' = [cfgStore EXCEPT ![c] = call'.value]
                /\ cbCalls' = [cbCalls EXCEPT ![c][readyCb[c]] = @ + 1]
                /\ thrown' = ""
           /\ (call'.op = "set configuration" /\ cfgStore[c] # EMPTY) =>
                /\ thrown' = "WebfocusComponentError"
                /\ cfgStore' = cfgStore
                /\ cbCalls' = cbCalls
           /\ (call'.op = "get property" /\ cfgStore[c] = EMPTY) =>
                thrown' = "WebfocusComponentError"
           /\ call'.op = "set property" =>
                /\ thrown' = "WebfocusComponentError"
                /\ cfgStore' = cfgStore
         ]_vars

\* A second, different value was assigned and refused: the first one is kept,
\* and the callback registered then has run once.
C7_Witness ==
    /\ call.op = "set configuration"
    /\ thrown = "WebfocusComponentError"
    /\ cfgStore[call.component] \notin {EMPTY, call.value}
    /\ cbCalls[call.component]["cb1"] = 1
    /\ Invocations(call.component) = 1


\* The view the handler tried first is the index view of the component.
TriedIndex == response.subpath = IndexSubpath

\* C4 as stated, for the GET/HEAD requests that reach the handler of a
\* registered component: the view for the request path is attempted; a
\* success is sent; a template-not-found failure makes the host render the
\* index view; any other failure goes to the error handler without it.
C4_Original ==
    (IsRequest /\ IsGetOrHead(response.method)) =>
      \A k \in RegisteredKeys :
        (UnderPage(k, response.path) /\ FirstVisit("ssr", k) > 0) =>
          /\ response.first # ""
          /\ response.first = "ok" =>
               response.status = 200 /\ response.rendered = "view"
          /\ response.first = "Failed to lookup view" => response.fallback # ""
          /\ response.first = "other error" =>
               response.status = 500 /\ response.fallback = ""

\* C4, amended: every GET/HEAD request under the prefix of a registered
\* component, except those under /api, reaches its handler unless the static
\* handler answers; the handler attempts the view for the request path and
\* sends a success; on template-not-found it renders the index view, unless
\* the view attempted is the index view itself; that case, any other failure,
\* and a failure of the index render go to the error handler (500).
C4_RenderFallback ==
    (IsRequest /\ IsGetOrHead(response.method)) =>
      \A k \in RegisteredKeys :
        /\ ( /\ UnderPage(k, response.path)
             /\ ~IsApiPath(response.path)
             /\ response.by # "staticApp" ) => FirstVisit("ssr", k) > 0
        /\ FirstVisit("ssr", k) > 0 =>
             /\ response.first # ""
             /\ response.first = "ok" =>
                  /\ response.status = 200
                  /\ response.rendered = "view"
                  /\ response.fallback = ""
             /\ (response.first = "Failed to lookup view" /\ ~TriedIndex) =>
                  /\ response.fallback # ""
                  /\ response.fallback = "ok" =>
                       response.status = 200 /\ response.rendered = "index"
                  /\ response.fallback # "ok" =>
                       response.status = 500 /\ response.by = "errorHandler"
             /\ ( \/ response.first = "other error"
                  \/ response.first = "Failed to lookup view" /\ TriedIndex ) =>
                  /\ response.fallback = ""
                  /\ response.status = 500
                  /\ response.by = "errorHandler"

\* A view was not found and the index view was sent in its place.
C4_Witness ==
    /\ IsRequest
    /\ response.first = "Failed to lookup view"
    /\ response.rendered = "index"
    /\ response.status = 200

\* The request is for no registered component, nor for a root page.
Unregistered ==
    /\ IsRequest
    /\ \A k \in RegisteredKeys :
           ~UnderPage(k, response.path) /\ ~UnderApi(k, response.path)
    /\ response.path # <<"/">>
    /\ response.path # ApiMountPath
    /\ response.by # "static"

\* C5 as stated, for the requests no handler fails on: after start() a request
\* to an unregistered prefix is answered 404, on the page routes and under
\* /api.
C5_Original ==
    (Unregistered /\ response.err = "") => response.status = 404

\* C5, amended: after start() a request to an unregistered prefix is answered
\* 404 if it is a GET or HEAD request on the page routes, or a request under
\* /api whose body the parsers accept; a request of another method on the
\* page routes is answered by the method-not-allowed handler, and a request
\* under /api whose body does not parse by the error handler (500).
C5_Unregistered404 ==
    Unregistered =>
      /\ (IsApiPath(response.path) /\ response.err = "") =>
           response.status = 404 /\ response.by = "apiNotFound"
      /\ (IsApiPath(response.path) /\ response.err # "") =>
           response.status = 500 /\ response.by = "errorHandler"
      /\ (~IsApiPath(response.path) /\ IsGetOrHead(response.method)) =>
           response.status = 404 /\ response.by = "notFoundGet"
      /\ (~IsApiPath(response.path) /\ ~IsGetOrHead(response.method)) =>
           response.by = "methodNotAllowed"

\* With "a-b" registered, GET /a-bc is answered 404 by the not-found handler.
C5_Witness ==
    /\ Unregistered
    /\ <<"a", "-", "b">> \in RegisteredKeys
    /\ response.path = <<"/", "a", "-", "b", "c">>
    /\ response.method = "GET"
    /\ response.status = 404

\* C6: after start() a request with a method other than GET/HEAD that no
\* component, static or root handler answers is answered 405, and a request
\* on which a handler raised an error is answered 500.
C6_Claim ==
    IsRequest =>
      /\ ( /\ ~IsGetOrHead(response.method)
           /\ ~IsApiPath(response.path)
           /\ response.err = ""
           /\ response.by \notin {"staticApp", "static", "rootGet", "ssr"} ) =>
             response.status = 405
      /\ response.err # "" => response.status = 500

\* The component handler of key k was invoked before every catch-all handler
\* that was invoked for the request.
OfferedFirst(kind, k) ==
    \A c \in CatchAlls :
        FirstVisit(c, <<>>) > 0 =>
            /\ FirstVisit(kind, k) > 0
            /\ FirstVisit(kind, k) < FirstVisit(c, <<>>)

\* C10: the API router and the page handler of every registered component
\* precede the catch-all handlers of their chain; and a request under the
\* page (API) prefix of a registered component, whose body parses, is offered
\* to the component's page handler (API router) before any catch-all handler.
C10_Claim ==
    /\ \A k \in RegisteredKeys :
         /\ Position(apiStack, "compApi", k) # {}
         /\ Position(appStack, "compPage", k) # {}
         /\ \A i \in Position(apiStack, "compApi", k),
               j \in CatchAllPositions(apiStack) : i < j
         /\ \A i \in Position(appStack, "compPage", k),
               j \in CatchAllPositions(appStack) : i < j
    /\ (IsRequest /\ response.err # "body") =>
         \A k \in RegisteredKeys :
           /\ UnderPage(k, response.path) => OfferedFirst("compPage", k)
           /\ UnderApi(k, response.path) => OfferedFirst("compApi", k)

====
